---- MODULE Spec2Model ----
(***************************************************************************)
(* Entity / component runtime of orbitworks-v2 with its physics binding    *)
(* layer: EntityBase (src/engine/entities/sphereentity.ts:416-776),        *)
(* EntityComponentBase, HealthComponent, ImpulseComponent, Physics and     *)
(* ThreeSceneBase (src/engine/threescenebase.ts).                          *)
(*                                                                         *)
(* The program is single threaded: every public call runs to completion,   *)
(* so every action below is one whole call, nested calls included.  The    *)
(* handlers are written as operators from a state record to a state        *)
(* record so that nested calls compose in the order the code makes them.   *)
(* A thrown exception is the field err: once it is set, the rest of the    *)
(* call is skipped, and what was assigned before the throw stays.          *)
(***************************************************************************)
EXTENDS Integers, Sequences, FiniteSets, TLC

\* ---------------------------------------------------------------- bounds
MaxEntities == 2
MaxComps == 3
MaxHandles == 3
MaxEvents == 1
MaxHandlers == 1
MaxDisposeCalls == 2
MaxAttached == 2
MaxDeltaTicks == 5
MaxInstances == 2
MaxRequests == 3

\* MaxEntities and MaxComps bound the objects callers construct; loading a
\* scene document constructs every entity of the scene anew, so the heap
\* has room for one more copy of each
EntityIds == 1..(2 * MaxEntities)
CompIds == 1..(2 * MaxComps)

\* ------------------------------------------------------- program constants
DefaultHealth == 100
DefaultLifetime == 1
DefaultKillY == -10

\* Physics.addEntity: options?.mass ?? 1
DefaultMass == 1

\* Physics.update aims at substeps of 1/StepRate seconds
StepRate == 120

\* deltaTime is a number of seconds; the arithmetic of Physics.update is
\* done on ticks of 1/TicksPerSecond seconds so that it is exact
TicksPerSecond == 240

EntityTypeMap == {"Basic", "Box", "Model"}
ComponentTypeMap == {"BasicComp", "ImpulseComp", "HealthComp"}

\* the map of the older copy of the component factory
StrictComponentTypeMap == {"BasicComp", "ImpulseComp"}

\* type tags that no map has
UnknownEntityType == "Ghost"
UnknownComponentType == "LegacyComp"

\* a component class of the caller whose onUpdate kills its entity
KillOnUpdateComp == "KillOnUpdateComp"

\* CollisionComponent, constructed by callers with a callback
CollisionComp == "CollisionComp"

\* geometry kind of the registered model (a mesh whose geometry getShape
\* has no mapping for)
ModelGeometry == "PlaneGeometry"
NoGeometry == "none"
SupportedGeometry ==
  {"RoundedBoxGeometry", "BoxGeometry", "SphereGeometry", "IcosahedronGeometry",
   "CylinderGeometry", "CapsuleGeometry", "BufferGeometry"}

VARIABLES
  ents,              \* heap of entity objects, by id
  comps,             \* heap of component objects, by id
  nextEnt,           \* next unused entity id
  nextComp,          \* next unused component id
  sceneEntities,     \* ThreeSceneBase.entities, a Set in insertion order
  enabled,           \* Physics.physicsState.enabled
  worldBodies,       \* native rigid bodies in the world
  worldColliders,    \* native colliders in the world
  nextBody,          \* next rigid-body handle of the native world
  nextCollider,      \* next collider handle of the native world
  entityBodyHandles, \* Physics.entityBodyHandles: entity -> body handles
  err,               \* exception thrown by the last call ("none" if none)
  errTag,            \* the type tag the message of that exception names
  paused,            \* ThreeSceneBase.paused
  worldFreed,        \* number of world.free() calls on the native world
  handlers,          \* CollisionManager.handlers, a Map in insertion order
  lastOp,            \* the last call made, with its arguments
  disposedBound,     \* entities whose render node was disposed while a
                     \* body created for them was still in the world
  callLog,           \* hook invocations made by the last call, in order
  handle,            \* a WebWorkerHandle, the promises its run() returned
                     \* and the requests its worker has not answered
  boundBefore        \* the entities bound when physics was last switched
                     \* off, kept until the call after that one

vars == <<ents, comps, nextEnt, nextComp, sceneEntities, enabled, worldBodies,
          worldColliders, nextBody, nextCollider, entityBodyHandles, err,
          errTag, paused, worldFreed, handlers, lastOp, disposedBound,
          callLog, handle, boundBefore>>

St ==
  [ents |-> ents, comps |-> comps, nextEnt |-> nextEnt, nextComp |-> nextComp,
   sceneEntities |-> sceneEntities, enabled |-> enabled,
   worldBodies |-> worldBodies, worldColliders |-> worldColliders,
   nextBody |-> nextBody, nextCollider |-> nextCollider,
   entityBodyHandles |-> entityBodyHandles, err |-> err, errTag |-> errTag,
   paused |-> paused, worldFreed |-> worldFreed, handlers |-> handlers,
   disposedBound |-> disposedBound, callLog |-> callLog]

\* ---------------------------------------------------------------- helpers
SeqToSet(s) == {s[i] : i \in 1..Len(s)}

RECURSIVE IndexOfFrom(_, _, _)
IndexOfFrom(s, x, i) ==
  IF i > Len(s) THEN 0
  ELSE IF s[i] = x THEN i ELSE IndexOfFrom(s, x, i + 1)

Throw(S, e) == IF S.err = "none" THEN [S EXCEPT !.err = e] ELSE S

\* throw new Error(`... ${tag} ...`): an error whose message names the tag
ThrowNamed(S, e, tag) ==
  IF S.err = "none" THEN [S EXCEPT !.err = e, !.errTag = tag] ELSE S

Log(S, entry) == [S EXCEPT !.callLog = Append(@, entry)]

\* the heap of the model is full: the call is outside the bounds
Overflow(S) == [S EXCEPT !.err = "overflow"]

\* an entity object that was never constructed
NoEntity ==
  [made |-> FALSE, nulled |-> FALSE, entityType |-> "Basic",
   geom |-> NoGeometry, object3D |-> FALSE, alive |-> "false",
   components |-> <<>>, pos |-> 0, scale |-> 1, width |-> 1,
   savedTransform |-> [pos |-> 0, scale |-> 1],
   physics |-> <<>>, destroyed |-> 0, nodeDisposed |-> 0,
   instances |-> 0, massSet |-> FALSE, mass |-> 0]

NoComponent ==
  [made |-> FALSE, name |-> "", compType |-> "", entity |-> 0, disposed |-> 0,
   timeAccumulator |-> 0, lifetime |-> DefaultLifetime, health |-> DefaultHealth,
   callback |-> "none"]

\* ------------------------------------------------- Physics (physics.ts)

\* getShape: the collider shape of a geometry kind, "null" for a kind with
\* no mapping (logged), and a TypeError when there is no geometry at all,
\* because line 93 reads geometry.parameters before any test
GetShape(geom) ==
  IF geom = NoGeometry THEN "TypeError"
  ELSE IF geom = "RoundedBoxGeometry" THEN "roundCuboid"
  ELSE IF geom = "BoxGeometry" THEN "cuboid"
  ELSE IF geom \in {"SphereGeometry", "IcosahedronGeometry"} THEN "ball"
  ELSE IF geom = "CylinderGeometry" THEN "cylinder"
  ELSE IF geom = "CapsuleGeometry" THEN "capsule"
  ELSE IF geom = "BufferGeometry" THEN "trimesh"
  ELSE "null"

\* EntityBase.getPhysicsBodyData: userData.physics, or the empty pair
GetPhysicsBodyData(S, e) == S.ents[e].physics

\* EntityBase.setPhysicsBodyData
SetPhysicsBodyData(S, e, data) == [S EXCEPT !.ents[e].physics = data]

\* the body type that is dynamic for every mass but 0
BodyTypeMut(mass) == IF mass = 0 THEN "Fixed" ELSE "Dynamic"

\* the body type createBody sets: dynamic, 0 = fixed, < 0 = kinematic
BodyType(mass) ==
  IF mass = 0 THEN "Fixed"
  ELSE IF mass < 0 THEN "KinematicPositionBased"
  ELSE "Dynamic"

\* Physics.createBody: one rigid body at the position of the instance
\* (0 for the node itself) and one collider attached to it, each with the
\* next handle of its own arena of the native world
CreateBody(S, e, instance, mass) ==
  [S EXCEPT
     !.worldBodies =
        @ \cup {[handle |-> S.nextBody, owner |-> e, instance |-> instance,
                 bodyType |-> BodyType(mass)]},
     !.worldColliders =
        @ \cup {[handle |-> S.nextCollider, parent |-> S.nextBody, owner |-> e]},
     !.nextBody = @ + 1,
     !.nextCollider = @ + 1]

\* createInstancedBody that starts at the second instance
RECURSIVE CreateInstancedBodyMut(_, _, _, _, _)
CreateInstancedBodyMut(S, e, mass, i, acc) ==
  IF i + 1 > S.ents[e].instances THEN [S |-> S, pairs |-> acc]
  ELSE CreateInstancedBodyMut(
         CreateBody(S, e, i + 1, mass), e, mass, i + 1,
         Append(acc, [body |-> S.nextBody, collider |-> S.nextCollider]))

\* Physics.createInstancedBody: one body and collider per instance, pushed
\* in the order of the instances
RECURSIVE CreateInstancedBody(_, _, _, _, _)
CreateInstancedBody(S, e, mass, i, acc) ==
  IF i > S.ents[e].instances THEN [S |-> S, pairs |-> acc]
  ELSE CreateInstancedBody(
         CreateBody(S, e, i, mass), e, mass, i + 1,
         Append(acc, [body |-> S.nextBody, collider |-> S.nextCollider]))

\* Physics.addEntity
PhysicsAddEntity(S, e) ==
  IF S.err # "none" THEN S
  ELSE IF ~S.ents[e].object3D THEN S
  ELSE LET shape == GetShape(S.ents[e].geom) IN
    IF shape = "TypeError" THEN Throw(S, "TypeError")
    ELSE IF shape = "null" THEN S
    ELSE LET mass == IF S.ents[e].massSet THEN S.ents[e].mass
                     ELSE DefaultMass
             made == IF S.ents[e].instances > 0
                     THEN CreateInstancedBody(S, e, mass, 1, <<>>)
                     ELSE [S |-> CreateBody(S, e, 0, mass),
                           pairs |-> <<[body |-> S.nextBody,
                                        collider |-> S.nextCollider]>>]
             S2 == SetPhysicsBodyData(made.S, e, made.pairs)
         IN [S2 EXCEPT !.entityBodyHandles =
               [x \in (DOMAIN @) \cup {e} |->
                  IF x = e
                  THEN [i \in 1..Len(made.pairs) |-> made.pairs[i].body]
                  ELSE @[x]]]

RECURSIVE RemoveBody(_, _, _)
RemoveBody(S, binding, i) ==
  IF i > Len(binding) THEN S
  ELSE RemoveBody(([S EXCEPT !.worldBodies = {b \in @ : b.handle #
      binding[i].body}, !.worldColliders = {c \in @ : c.parent #
      binding[i].body}]), binding, i + 1)

RECURSIVE RemoveCollider(_, _, _)
RemoveCollider(S, binding, i) ==
  IF i > Len(binding) THEN S
  ELSE RemoveCollider(([S EXCEPT !.worldColliders = {c \in @ : c.handle #
      binding[i].collider}]), binding, i + 1)

\* Physics.removeEntity.  getPhysicsBodyData() reads this.userData, which
\* is null on an entity that kill() has cleared.
PhysicsRemoveEntity(S, e) ==
  IF S.err # "none" THEN S
  ELSE IF S.ents[e].nulled THEN Throw(S, "TypeError")
  ELSE LET physics == GetPhysicsBodyData(S, e)
           S1 == RemoveBody(S, physics, 1)
           S2 == RemoveCollider(S1, physics, 1)
           S3 == SetPhysicsBodyData(S2, e, <<>>)
       IN [S3 EXCEPT !.entityBodyHandles =
             [x \in (DOMAIN @) \ {e} |-> @[x]]]

RECURSIVE RemoveEach(_, _, _)
RemoveEach(S, list, i) ==
  IF i > Len(list) THEN S
  ELSE RemoveEach(PhysicsRemoveEntity(S, list[i]), list, i + 1)

RECURSIVE AddEach(_, _, _)
AddEach(S, list, i) ==
  IF i > Len(list) THEN S
  ELSE AddEach(PhysicsAddEntity(S, list[i]), list, i + 1)

\* Physics.setEnabled (toggleEnabled passes the override on)
SetEnabled(S, en) ==
  LET S0 == [S EXCEPT !.enabled = en]
      S1 == RemoveEach(S0, S0.sceneEntities, 1)
      S2 == IF S1.err # "none" THEN S1
            ELSE [S1 EXCEPT !.worldBodies = {}, !.worldColliders = {}]
  IN IF en THEN AddEach(S2, S2.sceneEntities, 1) ELSE S2

\* Physics.getEntityByHandle: the first entity of the map, in insertion
\* order, whose handle list includes the handle; 0 for undefined
GetEntityByHandle(S, h) ==
  LET hits == {x \in DOMAIN S.entityBodyHandles :
                 h \in SeqToSet(S.entityBodyHandles[x])}
  IN IF hits = {} THEN 0 ELSE CHOOSE x \in hits : TRUE

\* ------------------------------- EntityComponentBase and the components

Call(hook, e, c, other, k) ==
  [hook |-> hook, e |-> e, c |-> c, other |-> other, k |-> k]

\* createComponent: undefined (0) for a type the map does not have,
\* otherwise a new component bound to the entity.  HealthComponent.loadState
\* and ImpulseComponent.loadState read their fields with || defaults.
CreateComponent(S, e, state) ==
  IF state.compType \notin ComponentTypeMap THEN S
  ELSE IF S.nextComp \notin CompIds THEN Overflow(S)
  ELSE [S EXCEPT
          !.comps[S.nextComp] =
             [made |-> TRUE, name |-> state.name, compType |-> state.compType,
              entity |-> e, disposed |-> 0, timeAccumulator |-> 0,
              lifetime |-> IF state.lifetime = 0 THEN DefaultLifetime
                           ELSE state.lifetime,
              health |-> IF state.health = 0 THEN DefaultHealth
                         ELSE state.health,
              callback |-> "none"],
          !.nextComp = @ + 1]

RECURSIVE CreateComponentsFrom(_, _, _, _, _)
CreateComponentsFrom(S, e, states, i, acc) ==
  IF i > Len(states) THEN [S |-> S, list |-> acc]
  ELSE LET S1 == CreateComponent(S, e, states[i])
           made == S1.nextComp # S.nextComp
       IN IF S1.err # "none" THEN [S |-> S1, list |-> acc]
          ELSE CreateComponentsFrom(S1, e, states, i + 1,
                 IF made THEN Append(acc, S.nextComp) ELSE acc)

\* createComponentsFromStates: map, then filter out the undefined results
CreateComponentsFromStates(S, e, states) ==
  CreateComponentsFrom(S, e, states, 1, <<>>)

\* createComponent of the copy in entitycompfactory.ts: an Error naming
\* the type for a type its map does not have
CreateComponentStrict(S, e, state) ==
  IF state.compType \notin StrictComponentTypeMap
  THEN ThrowNamed(S, "Error", state.compType)
  ELSE CreateComponent(S, e, state)

RECURSIVE CreateComponentsStrictFrom(_, _, _, _, _)
CreateComponentsStrictFrom(S, e, states, i, acc) ==
  IF i > Len(states) THEN [S |-> S, list |-> acc]
  ELSE LET S1 == CreateComponentStrict(S, e, states[i])
       IN IF S1.err # "none" THEN [S |-> S1, list |-> acc]
          ELSE CreateComponentsStrictFrom(S1, e, states, i + 1,
                                          Append(acc, S.nextComp))

\* createComponentsFromStates of the copy in entitycompfactory.ts: map
CreateComponentsFromStatesStrict(S, e, states) ==
  CreateComponentsStrictFrom(S, e, states, 1, <<>>)

\* EntityComponentBase.dispose: onDispose(), then the owner is dropped
Dispose(S, c) ==
  LET S1 == Log(S, Call("onDispose", S.comps[c].entity, c, 0, 0))
  IN [S1 EXCEPT !.comps[c].disposed = @ + 1, !.comps[c].entity = 0]

\* EntityComponentBase.saveState with the subclass fields
ComponentSaveState(S, c) ==
  [name |-> S.comps[c].name, compType |-> S.comps[c].compType,
   lifetime |-> S.comps[c].lifetime, health |-> S.comps[c].health]

\* ------------------------------------------------------------ EntityBase

RECURSIVE RemoveMatches(_, _, _, _)
RemoveMatches(S, e, matches, i) ==
  IF i > Len(matches) THEN S
  ELSE LET S1 == Dispose(S, matches[i])
           idx == (IndexOfFrom(S1.ents[e].components, matches[i], 1))
           S2 == IF idx > 0
                 THEN [S1 EXCEPT !.ents[e].components = (IF idx < 1 \/ idx >
                     Len((@)) THEN (@) ELSE SubSeq((@), 1, idx - 1) \o
                     SubSeq((@), idx + 1, Len((@))))]
                 ELSE S1
       IN RemoveMatches(S2, e, matches, i + 1)

\* EntityBase.removeComponent: this.components is null after kill()
RemoveComponent(S, e, name) ==
  IF S.err # "none" THEN S
  ELSE IF S.ents[e].nulled THEN Throw(S, "TypeError")
  ELSE RemoveMatches(S, e, (SelectSeq(S.ents[e].components, LAMBDA c :
      S.comps[c].name = name)), 1)

\* EntityBase.setObject3D with an instanced mesh of the geometry: the
\* node is replaced, the node the entity had is not disposed
SetObject3D(S, e, geom, instances) ==
  IF S.err # "none" THEN S
  ELSE [S EXCEPT !.ents[e].object3D = TRUE,
                 !.ents[e].geom = geom,
                 !.ents[e].instances = instances]

\* getUserData().physicsData = { mass }, or { } when the mass is left
\* unset: this.userData is null after kill()
SetPhysicsData(S, e, massSet, mass) ==
  IF S.err # "none" THEN S
  ELSE IF S.ents[e].nulled THEN Throw(S, "TypeError")
  ELSE [S EXCEPT !.ents[e].massSet = massSet,
                 !.ents[e].mass = IF massSet THEN mass ELSE 0]

\* EntityBase.setAlive: this.alive is assigned, then this.object3D.visible,
\* and this.object3D is null after kill()
SetAlive(S, e, alive) ==
  IF S.err # "none" THEN S
  ELSE LET S1 == [S EXCEPT !.ents[e].alive = IF alive THEN "true" ELSE "false"]
       IN IF S.ents[e].nulled THEN Throw(S1, "TypeError") ELSE S1

\* EntityBase.addComponent: the component is linked to this entity, then
\* pushed on this.components, which is null after kill()
AddComponent(S, e, c) ==
  IF S.err # "none" THEN S
  ELSE LET S1 == [S EXCEPT !.comps[c].entity = e]
       IN IF S.ents[e].nulled THEN Throw(S1, "TypeError")
          ELSE [S1 EXCEPT !.ents[e].components = Append(@, c)]

\* new of the caller's component class (EntityComponentBase constructor),
\* then entity.addComponent
AddKillOnUpdate(S, e) ==
  IF S.err # "none" THEN S
  ELSE IF S.nextComp \notin CompIds THEN Overflow(S)
  ELSE AddComponent(
         [S EXCEPT !.comps[S.nextComp] =
                      [NoComponent EXCEPT !.made = TRUE,
                                          !.name = KillOnUpdateComp,
                                          !.compType = KillOnUpdateComp,
                                          !.entity = e],
                   !.nextComp = @ + 1],
         e, S.nextComp)

\* new CollisionComponent(entity, state) with state.onCollisionCallback,
\* then entity.addComponent
AddCollisionComponent(S, e, callback) ==
  IF S.err # "none" THEN S
  ELSE IF S.nextComp \notin CompIds THEN Overflow(S)
  ELSE AddComponent(
         [S EXCEPT !.comps[S.nextComp] =
                      [NoComponent EXCEPT !.made = TRUE,
                                          !.name = CollisionComp,
                                          !.compType = CollisionComp,
                                          !.entity = e,
                                          !.callback = callback],
                   !.nextComp = @ + 1],
         e, S.nextComp)

\* kill() is defined with the scene, which it calls
RECURSIVE Kill(_, _)

\* ImpulseComponent.onUpdate, HealthComponent.onUpdate (no regeneration at
\* the default rate 0), BasicEntityComponent.onUpdate (empty), and the
\* onUpdate of the caller's class: this.getEntity()?.kill()
ComponentUpdate(S, c, dt) ==
  LET S1 == Log(S, Call("update", S.comps[c].entity, c, 0, 0))
      owner == S.comps[c].entity
  IN IF S.comps[c].compType = KillOnUpdateComp
     THEN IF owner = 0 THEN S1 ELSE Kill(S1, owner)
     ELSE IF S.comps[c].compType # "ImpulseComp" THEN S1
     ELSE IF owner = 0 THEN S1
     ELSE IF ~S1.ents[owner].object3D
          THEN RemoveComponent(S1, owner, S.comps[c].name)
     ELSE IF S.comps[c].lifetime = -1 THEN S1
     ELSE LET S2 == [S1 EXCEPT !.comps[c].timeAccumulator = @ + dt]
          IN IF S2.comps[c].timeAccumulator >= S2.comps[c].lifetime
             THEN RemoveComponent(S2, owner, S.comps[c].name)
             ELSE S2

\* Array.prototype.forEach over this.components: the length is read once,
\* each index is visited if the array still has it, and a splice made by a
\* callback shifts the later elements down under the running index.  arr
\* is the array object the loop started on: removeComponent splices it,
\* kill() assigns another array to this.components and leaves it as it is.
RECURSIVE ForEachUpdate(_, _, _, _, _, _)
ForEachUpdate(S, e, arr, k, len, dt) ==
  LET array == IF S.ents[e].nulled THEN arr ELSE S.ents[e].components
  IN IF k > len \/ S.err # "none" THEN S
     ELSE ForEachUpdate(IF k > Len(array) THEN S
                        ELSE ComponentUpdate(S, array[k], dt),
                        e, array, k + 1, len, dt)

\* EntityBase.update
EntityUpdate(S, e, dt) ==
  IF S.err # "none" THEN S
  ELSE IF S.ents[e].alive # "true" THEN S
  ELSE LET S1 == Log(S, Call("onUpdate", e, 0, 0, 0))
       IN ForEachUpdate(S1, e, S1.ents[e].components, 1,
                        Len(S1.ents[e].components), dt)

RECURSIVE DisposeAll(_, _, _)
DisposeAll(S, list, i) ==
  IF i > Len(list) THEN S
  ELSE DisposeAll(Dispose(S, list[i]), list, i + 1)

\* EntityBase.saveState: userData is replaced by a copy that holds the
\* transform just read and physics: undefined
EntitySaveState(S, e) ==
  IF S.err # "none" THEN S
  ELSE IF S.ents[e].nulled THEN Throw(S, "TypeError")
  ELSE [S EXCEPT !.ents[e].savedTransform =
                    [pos |-> S.ents[e].pos, scale |-> S.ents[e].scale],
                 !.ents[e].physics = <<>>]

\* the EntityState record saveState() returns
SavedState(S, e) ==
  [entityType |-> S.ents[e].entityType,
   pos |-> S.ents[e].pos, scale |-> S.ents[e].scale,
   width |-> S.ents[e].width,
   components |-> [i \in 1..Len(S.ents[e].components) |->
                     ComponentSaveState(S, S.ents[e].components[i])]]

\* --------------------------------------------- ThreeSceneBase, kill()

\* kill() and scene.removeEntity() call each other; the inner call finds
\* the entity already out of the set, or is made with kill = false
RECURSIVE SceneRemoveEntity(_, _, _)

\* ThreeSceneBase.removeEntity
SceneRemoveEntity(S, e, kill) ==
  IF S.err # "none" THEN S
  ELSE IF e \notin SeqToSet(S.sceneEntities) THEN S
  ELSE LET S1 == PhysicsRemoveEntity(S, e)
           S2 == IF S1.err # "none" THEN S1
                 ELSE [S1 EXCEPT !.sceneEntities =
                         SelectSeq(@, LAMBDA x : x # e)]
       IN IF kill THEN Kill(S2, e) ELSE S2

\* disposeObject3D(this.object3D) in kill()
DisposeObject3D(S, e) ==
  [S EXCEPT !.ents[e].nodeDisposed = @ + 1,
            !.disposedBound =
               IF \E b \in S.worldBodies : b.owner = e THEN @ \cup {e} ELSE @]

\* the loop "for (const key in this) this[key] = null"
ClearAllReferences(S, e) ==
  [S EXCEPT !.ents[e] =
     [NoEntity EXCEPT !.made = TRUE, !.nulled = TRUE, !.alive = "null",
                      !.destroyed = S.ents[e].destroyed,
                      !.nodeDisposed = S.ents[e].nodeDisposed]]

\* kill() without its "if (!this.object3D) return" guard
KillMut(S, e) ==
  IF S.err # "none" THEN S
  ELSE LET S1 == [S EXCEPT !.ents[e].alive = "false"]
           S2 == Log([S1 EXCEPT !.ents[e].destroyed = @ + 1],
                     Call("onDestroy", e, 0, 0, 0))
           S3 == SceneRemoveEntity(S2, e, FALSE)
           S4 == DisposeObject3D(S3, e)
           S5 == DisposeAll(S4, S4.ents[e].components, 1)
           S6 == DisposeAll(S5, S5.ents[e].components, 1)
           S7 == [S6 EXCEPT !.ents[e].components = <<>>]
       IN IF S3.err # "none" THEN S3 ELSE ClearAllReferences(S7, e)

\* EntityBase.kill
Kill(S, e) ==
  IF S.err # "none" THEN S
  ELSE IF ~S.ents[e].object3D THEN S
  ELSE LET S1 == [S EXCEPT !.ents[e].alive = "false"]
           S2 == Log([S1 EXCEPT !.ents[e].destroyed = @ + 1],
                     Call("onDestroy", e, 0, 0, 0))
           S3 == SceneRemoveEntity(S2, e, FALSE)
           S4 == DisposeObject3D(S3, e)
           S5 == DisposeAll(S4, S4.ents[e].components, 1)
           S6 == DisposeAll(S5, S5.ents[e].components, 1)
           S7 == [S6 EXCEPT !.ents[e].components = <<>>]
       IN IF S3.err # "none" THEN S3 ELSE ClearAllReferences(S7, e)

\* ThreeSceneBase.addEntity
SceneAddEntity(S, e, isPhysicsObject) ==
  IF S.err # "none" THEN S
  ELSE LET S1 == [S EXCEPT !.sceneEntities =
                     IF e \in SeqToSet(@) THEN @ ELSE Append(@, e)]
       IN IF isPhysicsObject THEN PhysicsAddEntity(S1, e) ELSE S1

\* BoxEntity.createObject3D that multiplies the dimensions by the scale and
\* leaves the scale in the state
CreateObject3DMut(state) ==
  IF state.entityType = "Box"
  THEN [geom |-> "BoxGeometry",
        state |-> [state EXCEPT !.width = state.width * state.scale]]
  ELSE IF state.entityType = "Model"
  THEN [geom |-> ModelGeometry, state |-> state]
  ELSE [geom |-> NoGeometry, state |-> state]

\* createObject3D of BasicEntity, BoxEntity and ModelEntity: the geometry
\* kind of the node, and the state with its scale baked in (Box only)
CreateObject3D(state) ==
  IF state.entityType = "Box"
  THEN [geom |-> "BoxGeometry",
        state |-> [state EXCEPT !.width = state.width * state.scale,
                                !.scale = 1]]
  ELSE IF state.entityType = "Model"
  THEN [geom |-> ModelGeometry, state |-> state]
  ELSE [geom |-> NoGeometry, state |-> state]

\* EntityBase constructor followed by loadState(entityState)
NewEntity(S, config) ==
  LET id == S.nextEnt
      made == CreateObject3D(config)
      state == made.state
      S1 == [S EXCEPT !.nextEnt = @ + 1]
      built == CreateComponentsFromStates(S1, id, state.components)
  IN IF id \notin EntityIds THEN Overflow(S)
     ELSE IF built.S.err # "none" THEN built.S
     ELSE [built.S EXCEPT
        !.ents[id] =
           [made |-> TRUE, nulled |-> FALSE, entityType |-> state.entityType,
            geom |-> made.geom, object3D |-> TRUE, alive |-> "true",
            components |-> built.list, pos |-> state.pos,
            scale |-> state.scale, width |-> state.width,
            savedTransform |-> [pos |-> state.pos, scale |-> state.scale],
            physics |-> <<>>, destroyed |-> 0, nodeDisposed |-> 0,
            instances |-> 0, massSet |-> FALSE, mass |-> 0]]

\* EntityBase.setComponents with either copy of the component factory:
\* the list is assigned only if the factory returns
EntitySetComponents(S, e, states, strict) ==
  IF S.err # "none" THEN S
  ELSE IF S.ents[e].nulled THEN Throw(S, "TypeError")
  ELSE LET built == IF strict
                    THEN CreateComponentsFromStatesStrict(S, e, states)
                    ELSE CreateComponentsFromStates(S, e, states)
       IN IF built.S.err # "none" THEN built.S
          ELSE [built.S EXCEPT !.ents[e].components = built.list]

\* createEntity that constructs whatever the lookup returns
CreateEntityMut(S, config) ==
  IF S.err # "none" THEN S ELSE NewEntity(S, config)

\* createEntity: an Error for a type the map does not have
CreateEntity(S, config) ==
  IF S.err # "none" THEN S
  ELSE IF config.entityType \notin EntityTypeMap
       THEN ThrowNamed(S, "Error", config.entityType)
  ELSE NewEntity(S, config)

\* EntityBase.loadState on a constructed entity: the transform and the
\* userData of the state, and a new component list built from the state
\* (the components the entity had are dropped without dispose)
EntityLoadState(S, e, state) ==
  IF S.err # "none" THEN S
  ELSE IF S.ents[e].nulled THEN Throw(S, "TypeError")
  ELSE LET built == CreateComponentsFromStates(S, e, state.components)
       IN IF built.S.err # "none" THEN built.S
          ELSE [built.S EXCEPT
                  !.ents[e].entityType = state.entityType,
                  !.ents[e].pos = state.pos,
                  !.ents[e].scale = state.scale,
                  !.ents[e].width = state.width,
                  !.ents[e].savedTransform =
                     [pos |-> state.pos, scale |-> state.scale],
                  !.ents[e].physics = <<>>,
                  !.ents[e].massSet = FALSE,
                  !.ents[e].mass = 0,
                  !.ents[e].components = built.list,
                  !.ents[e].alive = "true"]

\* createEntityFromState: createEntity, then loadState with the same state
\* object, which createObject3D has rewritten in place
CreateEntityFromState(S, state) ==
  LET S1 == CreateEntity(S, state)
  IN IF S1.err # "none" THEN S1
     ELSE EntityLoadState(S1, S.nextEnt, CreateObject3D(state).state)

\* HealthComponent.damage; the other components have no damage method
ComponentDamage(S, c, amount) ==
  IF S.comps[c].compType # "HealthComp" THEN S
  ELSE LET h == IF S.comps[c].health - amount > 0
                THEN S.comps[c].health - amount ELSE 0
           S1 == Log([S EXCEPT !.comps[c].health = h],
                     Call("damage", S.comps[c].entity, c, 0, 0))
       IN IF h = 0 /\ S.comps[c].entity # 0
          THEN Kill(S1, S.comps[c].entity) ELSE S1

\* the for-of loop of EntityBase.damage runs over the array object it
\* started on: kill() replaces this.components and never edits that array
RECURSIVE DamageLoop(_, _, _, _)
DamageLoop(S, arr, i, amount) ==
  IF i > Len(arr) \/ S.err # "none" THEN S
  ELSE DamageLoop(ComponentDamage(S, arr[i], amount), arr, i + 1, amount)

\* EntityBase.damage: this.components is null after kill()
EntityDamage(S, e, amount) ==
  IF S.err # "none" THEN S
  ELSE IF S.ents[e].nulled THEN Throw(S, "TypeError")
  ELSE DamageLoop(S, S.ents[e].components, 1, amount)

\* the collide method of a component: BasicEntityComponent.collide is
\* empty; CollisionComponent.collide calls the callback it was given (one
\* that kills the other entity, or one that kills its own entity), and
\* removes itself from its entity when it was given none
ComponentCollide(S, c, other, started, k) ==
  IF S.comps[c].compType \notin ({"BasicComp", CollisionComp}) THEN S
  ELSE LET owner == S.comps[c].entity
           S1 == Log(S, Call("componentCollide", owner, c, other, k))
           killed == IF S.comps[c].callback = "killOther" THEN other
                     ELSE owner
       IN IF S.comps[c].compType # CollisionComp THEN S1
          ELSE IF S.comps[c].callback \in {"killOther", "killSelf"}
               THEN IF killed = 0 THEN S1 ELSE Kill(S1, killed)
          ELSE IF owner = 0 THEN S1
          ELSE RemoveComponent(S1, owner, S.comps[c].name)

\* for (const component of this.components): the iterator reads the
\* length of the array object it started on at every step; removeComponent
\* splices that array, kill() leaves it as it is
RECURSIVE CollideLoop(_, _, _, _, _, _, _)
CollideLoop(S, e, arr, i, other, started, k) ==
  LET array == IF S.ents[e].nulled THEN arr ELSE S.ents[e].components
  IN IF i > Len(array) \/ S.err # "none" THEN S
     ELSE CollideLoop(ComponentCollide(S, array[i], other, started, k),
                      e, array, i + 1, other, started, k)

\* EntityBase.collide: onCollide, then the collide method of each
\* component that has one; this.components is null after kill()
EntityCollide(S, e, other, started, k) ==
  IF S.err # "none" THEN S
  ELSE LET S1 == Log(S, Call(IF started THEN "collideStart" ELSE "collideEnd",
                             e, 0, other, k))
       IN IF S.ents[e].nulled THEN Throw(S1, "TypeError")
          ELSE CollideLoop(S1, e, S1.ents[e].components, 1, other, started, k)

\* entityCollision that dispatches to one side only
EntityCollisionMut(S, a, b, started, k) ==
  EntityCollide(S, a, b, started, k)

\* ThreeSceneBase.entityCollision
EntityCollision(S, a, b, started, k) ==
  EntityCollide(EntityCollide(S, a, b, started, k), b, a, started, k)

\* the callback Physics.update passes to drainCollisionEvents
RECURSIVE DrainCollisionEvents(_, _, _)
DrainCollisionEvents(S, events, i) ==
  IF i > Len(events) \/ S.err # "none" THEN S
  ELSE LET entity1 == GetEntityByHandle(S, events[i].handle1)
           entity2 == GetEntityByHandle(S, events[i].handle2)
           S1 == IF entity1 # 0 /\ entity2 # 0
                 THEN EntityCollision(S, entity1, entity2,
                                      events[i].started, i)
                 ELSE S
       IN DrainCollisionEvents(S1, events, i + 1)

\* Math.ceil(num / den) for num >= 0 and den > 0
Ceil(num, den) == (num + den - 1) \div den

\* const steps = Math.ceil(dt / (1 / 120)), for dt in ticks
Steps(dt) == Ceil(dt * StepRate, TicksPerSecond)

\* Physics.update for a deltaTime of dt ticks: world.timestep is set to
\* dt / steps (the fraction other / k of the log entry, 0 / 0 being NaN),
\* the world is stepped steps times, and the events the engine queued
\* while stepping are drained
PhysicsUpdate(S, events, dt) ==
  IF S.err # "none" THEN S
  ELSE IF ~S.enabled THEN S
  ELSE LET steps == Steps(dt)
           S1 == Log(S, Call("timestep", 0, 0, dt, steps))
           S2 == IF steps > 0 THEN Log(S1, Call("step", 0, 0, 0, steps))
                 ELSE S1
       IN DrainCollisionEvents(S2, events, 1)

\* Physics.syncEntity: the translation of a body equals the position its
\* node had when it was bound, and nothing moves a node afterwards, so the
\* copy leaves the position as it is
SyncEntity(S, e) ==
  IF S.err # "none" THEN S
  ELSE Log(S, Call("syncEntity", e, 0, 0, 0))

\* Physics.dispose: world.free() on a world that was freed before is a use
\* of a freed native object; it returns or raises a TypeError
PhysicsDispose(S, outcome) ==
  IF S.err # "none" THEN S
  ELSE LET S1 == [S EXCEPT !.enabled = FALSE, !.worldFreed = @ + 1]
       IN IF S.worldFreed > 0 /\ outcome # "none" THEN Throw(S1, outcome)
          ELSE S1

\* ------------------------------------------------------ CollisionManager

\* CollisionManager.make: Map.set keeps the place of a name it has
MakeHandler(S, name, entitiesA, entitiesB) ==
  LET handler == [name |-> name, entitiesA |-> entitiesA,
                  entitiesB |-> entitiesB]
      at == {i \in 1..Len(S.handlers) : S.handlers[i].name = name}
  IN [S EXCEPT !.handlers =
        IF at = {} THEN Append(@, handler)
        ELSE [i \in 1..Len(@) |-> IF i \in at THEN handler ELSE @[i]]]

\* Box3.setFromObject is empty for a node without geometry
HasBounds(S, e) == S.ents[e].geom # NoGeometry

\* CollisionManager.checkCollision: the boxes around the two nodes meet
CheckCollision(S, a, b) ==
  /\ HasBounds(S, a)
  /\ HasBounds(S, b)
  /\ LET d == S.ents[a].pos - S.ents[b].pos
     IN 2 * (IF d < 0 THEN -d ELSE d) <= S.ents[a].width + S.ents[b].width

IsAlive(S, e) == S.ents[e].alive = "true"

\* the pair test that invokes the handler twice
CheckPairMut(S, h, a, b) ==
  IF a # b /\ IsAlive(S, a) /\ IsAlive(S, b) /\ CheckCollision(S, a, b)
  THEN Log(Log(S, Call("onCollision", a, 0, b, h)),
           Call("onCollision", a, 0, b, h))
  ELSE S

\* the test on one pair, and the call of handler.onCollision
CheckPair(S, h, a, b) ==
  IF a # b /\ IsAlive(S, a) /\ IsAlive(S, b) /\ CheckCollision(S, a, b)
  THEN Log(S, Call("onCollision", a, 0, b, h))
  ELSE S

\* the dead entities of the pair are deleted from the two sets
PrunePair(S, h, a, b) ==
  LET S1 == IF ~IsAlive(S, a)
            THEN [S EXCEPT !.handlers[h].entitiesA =
                    SelectSeq(@, LAMBDA x : x # a)]
            ELSE S
  IN IF ~IsAlive(S1, b)
     THEN [S1 EXCEPT !.handlers[h].entitiesB = SelectSeq(@, LAMBDA x : x # b)]
     ELSE S1

\* handler.entitiesB.forEach for one entityA: Set.forEach goes on with the
\* next entry when the entry it is visiting is deleted
RECURSIVE SweepB(_, _, _, _)
SweepB(S, h, a, j) ==
  IF j > Len(S.handlers[h].entitiesB) THEN S
  ELSE LET b == S.handlers[h].entitiesB[j]
           S1 == PrunePair(CheckPair(S, h, a, b), h, a, b)
       IN SweepB(S1, h, a,
                 IF j <= Len(S1.handlers[h].entitiesB)
                    /\ S1.handlers[h].entitiesB[j] = b
                 THEN j + 1 ELSE j)

\* handler.entitiesA.forEach
RECURSIVE SweepA(_, _, _)
SweepA(S, h, i) ==
  IF i > Len(S.handlers[h].entitiesA) THEN S
  ELSE LET a == S.handlers[h].entitiesA[i]
           S1 == SweepB(S, h, a, 1)
       IN SweepA(S1, h,
                 IF i <= Len(S1.handlers[h].entitiesA)
                    /\ S1.handlers[h].entitiesA[i] = a
                 THEN i + 1 ELSE i)

RECURSIVE SweepHandlers(_, _)
SweepHandlers(S, h) ==
  IF h > Len(S.handlers) THEN S
  ELSE SweepHandlers(SweepA(S, h, 1), h + 1)

\* CollisionManager.update
CollisionUpdate(S) ==
  IF S.err # "none" THEN S
  ELSE SweepHandlers(Log(S, Call("sweep", 0, 0, 0, 0)), 1)

\* CollisionManager.dispose
CollisionDispose(S) ==
  IF S.err # "none" THEN S ELSE [S EXCEPT !.handlers = <<>>]

\* ------------------------------------- ThreeSceneBase.update and dispose

\* the body of the loop over this.entities in update(): sync, update, and
\* removal of an entity that fell below killY.  getWorldTransform() reads
\* this.object3D, which is null on an entity that kill() has cleared.
UpdateOneEntity(S, e, dt) ==
  LET S1 == SyncEntity(S, e)
      S2 == EntityUpdate(S1, e, dt)
  IN IF S2.err # "none" THEN S2
     ELSE IF S2.ents[e].nulled THEN Throw(S2, "TypeError")
     ELSE IF S2.ents[e].pos < DefaultKillY
          THEN SceneRemoveEntity(S2, e, TRUE)
     ELSE S2

\* for (const entity of this.entities): a Set iterator skips the entries
\* deleted before it reaches them
RECURSIVE UpdateEntities(_, _, _, _)
UpdateEntities(S, list, i, dt) ==
  IF i > Len(list) \/ S.err # "none" THEN S
  ELSE IF list[i] \notin SeqToSet(S.sceneEntities)
       THEN UpdateEntities(S, list, i + 1, dt)
  ELSE UpdateEntities(UpdateOneEntity(S, list[i], dt), list, i + 1, dt)

\* update() that runs the entity loop before physics and the sweep
SceneUpdateMut(S, events, dt) ==
  IF S.err # "none" THEN S
  ELSE IF S.paused THEN S
  ELSE LET S1 == UpdateEntities(S, S.sceneEntities, 1, dt)
           S2 == PhysicsUpdate(S1, events, dt * TicksPerSecond)
       IN CollisionUpdate(S2)

\* ThreeSceneBase.update; weather, audio and the scene's own hooks touch
\* nothing of this state
SceneUpdate(S, events, dt) ==
  IF S.err # "none" THEN S
  ELSE IF S.paused THEN S
  ELSE LET S1 == PhysicsUpdate(S, events, dt * TicksPerSecond)
           S2 == CollisionUpdate(S1)
       IN UpdateEntities(S2, S2.sceneEntities, 1, dt)


RECURSIVE SaveEach(_, _, _)
SaveEach(S, list, i) ==
  IF i > Len(list) THEN S
  ELSE SaveEach(EntitySaveState(S, list[i]), list, i + 1)

\* ThreeSceneBase.saveSceneState: the document, and the scene after the
\* saveState() calls
SaveSceneState(S) ==
  [S |-> SaveEach(S, S.sceneEntities, 1),
   state |-> [enabled |-> S.enabled,
              entities |-> [i \in 1..Len(S.sceneEntities) |->
                              SavedState(S, S.sceneEntities[i])]]]

RECURSIVE RemoveAllEntities(_, _, _)
RemoveAllEntities(S, list, i) ==
  IF i > Len(list) THEN S
  ELSE RemoveAllEntities(SceneRemoveEntity(S, list[i], TRUE), list, i + 1)

RECURSIVE CreateEntities(_, _, _, _)
CreateEntities(S, configs, i, acc) ==
  IF i > Len(configs) \/ S.err # "none" THEN [S |-> S, list |-> acc]
  ELSE LET S1 == CreateEntity(S, configs[i])
       IN CreateEntities(S1, configs, i + 1,
                         IF S1.err = "none" THEN Append(acc, S.nextEnt) ELSE acc)

RECURSIVE AddEntities(_, _, _)
AddEntities(S, list, i) ==
  IF i > Len(list) THEN S
  ELSE AddEntities(SceneAddEntity(S, list[i], TRUE), list, i + 1)

\* createAddEntities: every entity is constructed, then each is added as a
\* physics object
CreateAddEntities(S, configs) ==
  LET built == CreateEntities(S, configs, 1, <<>>)
  IN AddEntities(built.S, built.list, 1)

\* ThreeSceneBase.loadSceneState
LoadSceneState(S, state) ==
  LET S1 == RemoveAllEntities(S, S.sceneEntities, 1)
      S2 == CreateAddEntities(S1, state.entities)
  IN IF S2.err # "none" THEN S2 ELSE SetEnabled(S2, state.enabled)

\* ThreeSceneBase.dispose: every entity is removed and killed, then every
\* field with a dispose method is disposed, in the order the constructor
\* assigned them: the collision manager before physics
SceneDispose(S, outcome) ==
  LET S1 == RemoveAllEntities(S, S.sceneEntities, 1)
      S2 == IF S1.err # "none" THEN S1
            ELSE [S1 EXCEPT !.sceneEntities = <<>>]
  IN PhysicsDispose(CollisionDispose(S2), outcome)

\* ------------------------------------------- WebWorkerHandle, Toiler

\* a promise settles on the first call of its resolve or reject, or when
\* its executor throws; a later call changes nothing
Settle(h, p, state, by) ==
  IF h.promises[p].state # "pending" THEN h
  ELSE [h EXCEPT !.promises[p].state = state, !.promises[p].by = by]

\* the request id that is used twice
NextRequestIdMut(h) == IF h.requestId = 0 THEN 1 ELSE h.requestId

\* const id = ++this.requestId
NextRequestId(h) == h.requestId + 1

\* WebWorkerHandle.run: the executor stores resolve and reject under the
\* id, then posts the request; postMessage throws on the null worker of a
\* terminated handle and on a payload that cannot be cloned, and a throw
\* in the executor rejects the promise
Run(h, cloneable) ==
  LET id == NextRequestId(h)
      p == Len(h.promises) + 1
      h1 == [h EXCEPT
               !.requestId = id,
               !.promises = Append(@, [id |-> id, state |-> "pending",
                                       by |-> 0]),
               !.pending =
                 \* Map.prototype.set: an entry with the key is replaced
                 LET entry == [id |-> id, promise |-> p]
                     at == {i \in 1..Len(@) : @[i].id = id}
                 IN IF at = {} THEN Append(@, entry)
                    ELSE [i \in 1..Len(@) |->
                            IF i \in at THEN entry ELSE @[i]]]
  IN IF h.worker = "null" \/ ~cloneable
     THEN Settle(h1, p, "rejected", 0)
     ELSE [h1 EXCEPT !.posted = @ \cup {id}]

\* WebWorkerHandle.handleMessage for a response with the id: nothing for an
\* id without an entry, otherwise the entry is deleted and its promise
\* resolved (ok) or rejected
HandleMessage(h, id, ok) ==
  LET at == {i \in 1..Len(h.pending) : h.pending[i].id = id}
  IN IF at = {} THEN h
     ELSE LET entry == h.pending[CHOOSE i \in at : TRUE]
              h1 == [h EXCEPT !.pending = SelectSeq(@, LAMBDA x : x.id # id)]
          IN Settle(h1, entry.promise, IF ok THEN "resolved" ELSE "rejected", id)

\* WebWorkerHandle.terminate: every pending promise is rejected, the Map is
\* cleared, the worker is terminated and the field set to null; on a
\* handle that was terminated this.worker.terminate() throws
Terminate(h) ==
  LET rejected == {h.pending[i].promise : i \in 1..Len(h.pending)}
  IN [h EXCEPT
        !.promises = [p \in 1..Len(@) |->
                        IF p \in rejected /\ @[p].state = "pending"
                        THEN [@[p] EXCEPT !.state = "rejected"]
                        ELSE @[p]],
        !.pending = <<>>,
        !.worker = "null"]

\* ------------------------------------------------------------- inputs

\* the EntityState of a call that takes none
NoConfig ==
  [entityType |-> "", pos |-> 0, scale |-> 1, width |-> 1, components |-> <<>>]

CompState(type) ==
  [name |-> type, compType |-> type, lifetime |-> 0, health |-> 0]

Widths == {2}
DeltaTime == 1

\* sets of EntityState records: the types, positions, scales and component
\* lists the records are built from
Configs(types, positions, scales, components) ==
  [entityType : types, pos : positions, scale : scales,
   width : Widths, components : components]

\* the EntityState records callers construct entities from: for the
\* physics binding, one entity of each kind of render node; for the
\* component lifecycle, boxes with each component list; for the scene
\* document, every transform
PhysicsConfigs ==
  [entityType : EntityTypeMap, pos : {0}, scale : {1},
   width : Widths, components : {<<>>}]

\* records for the factories: registered and unregistered types
FactoryConfigs ==
  [entityType : {"Box", UnknownEntityType}, pos : {0}, scale : {1},
   width : Widths, components : {<<>>}]

CompConfigs ==
  [entityType : {"Box"}, pos : {0}, scale : {1}, width : Widths,
   components : {<<>>, <<CompState("BasicComp")>>}]

\* boxes for the bodies of instanced nodes and for the body types
BindConfigs ==
  [entityType : {"Box"}, pos : {0}, scale : {1}, width : Widths,
   components : {<<>>}]

RECURSIVE SetToSeq(_)
SetToSeq(set) ==
  IF set = {} THEN <<>>
  ELSE LET x == CHOOSE y \in set : \A z \in set : y <= z
       IN <<x>> \o SetToSeq(set \ {x})

\* the event queues one step can leave behind, up to MaxEvents events
EventLists(S) ==
  UNION {[1..n -> ({ev \in [handle1 : {c.handle : c \in S.worldColliders},
      handle2 : {c.handle : c \in S.worldColliders}, started : BOOLEAN] :
      ev.handle1 # ev.handle2})] : n \in 0..MaxEvents}

\* ------------------------------------------------------------ the machine

\* the call last made: its receiver or argument entity, and what the
\* caller passed and could observe before the call
Op(name, e) ==
  [op |-> name, e |-> e, flag |-> FALSE, afterOff |-> FALSE, amount |-> 0,
   name |-> "", components |-> <<>>, events |-> <<>>,
   config |-> NoConfig, configs |-> <<>>, other |-> 0]

Init ==
  /\ ents = [e \in EntityIds |-> NoEntity]
  /\ comps = [c \in CompIds |-> NoComponent]
  /\ nextEnt = 1
  /\ nextComp = 1
  /\ sceneEntities = <<>>
  /\ enabled = TRUE
  /\ worldBodies = {}
  /\ worldColliders = {}
  /\ nextBody = 1
  /\ nextCollider = 1
  /\ entityBodyHandles = <<>>
  /\ err = "none"
  /\ errTag = ""
  /\ paused = FALSE
  /\ worldFreed = 0
  /\ handlers = <<>>
  /\ lastOp = Op("init", 0)
  /\ disposedBound = {}
  /\ callLog = <<>>
  /\ handle = ([requestId |-> 0, pending |-> <<>>, worker |-> "worker",
         promises |-> <<>>, posted |-> {}])
  /\ boundBefore = {}

\* the state a call starts from: no exception pending, an empty call log
Begin == [St EXCEPT !.err = "none", !.errTag = "", !.callLog = <<>>]

Apply(S, op) ==
  /\ (/\ S.err # "overflow" /\ S.nextBody <= MaxHandles + 1)
  /\ ents' = S.ents
  /\ comps' = S.comps
  /\ nextEnt' = S.nextEnt
  /\ nextComp' = S.nextComp
  /\ sceneEntities' = S.sceneEntities
  /\ enabled' = S.enabled
  /\ worldBodies' = S.worldBodies
  /\ worldColliders' = S.worldColliders
  /\ nextBody' = S.nextBody
  /\ nextCollider' = S.nextCollider
  /\ entityBodyHandles' = S.entityBodyHandles
  /\ err' = S.err
  /\ errTag' = S.errTag
  /\ paused' = S.paused
  /\ worldFreed' = S.worldFreed
  /\ handlers' = S.handlers
  /\ disposedBound' = S.disposedBound
  /\ callLog' = S.callLog
  /\ handle' = handle
  /\ lastOp' = op
  /\ boundBefore' =
       IF op.op = "toggleEnabled"
       THEN IF ~op.flag THEN ({e \in SeqToSet(sceneEntities) : ents[e].physics # <<>>})
            ELSE IF op.afterOff THEN boundBefore ELSE {}
       ELSE {}

Made == {e \in EntityIds : ents[e].made}
LiveEntities == {e \in Made : ~ents[e].nulled}

DoCreateEntity(configs) ==
  \E config \in configs :
    LET S == CreateEntity(Begin, config)
    IN /\ S.nextEnt <= MaxEntities + 1
       /\ S.nextComp <= MaxComps + 1
       /\ Apply(S, [Op("createEntity", nextEnt) EXCEPT !.config = config])

DoAddEntity ==
  \E e \in LiveEntities, isPhysicsObject \in BOOLEAN :
    Apply(SceneAddEntity(Begin, e, isPhysicsObject),
          [Op("addEntity", e) EXCEPT !.flag = isPhysicsObject])

DoRemoveEntity ==
  \E e \in Made, kill \in BOOLEAN :
    Apply(SceneRemoveEntity(Begin, e, kill),
          [Op("removeEntity", e) EXCEPT
             !.flag = e \in SeqToSet(sceneEntities)])

DoKill ==
  \E e \in Made :
    Apply(Kill(Begin, e), [Op("kill", e) EXCEPT !.flag = ents[e].nulled])

DoPhysicsAddEntity ==
  \E e \in LiveEntities :
    Apply(PhysicsAddEntity(Begin, e), Op("physicsAddEntity", e))

DoPhysicsRemoveEntity ==
  \E e \in Made :
    Apply(PhysicsRemoveEntity(Begin, e),
          [Op("physicsRemoveEntity", e) EXCEPT
             !.flag = ents[e].physics # <<>>])

DoSaveState ==
  \E e \in LiveEntities :
    Apply(EntitySaveState(Begin, e), Op("saveState", e))

DoToggleEnabled ==
  \E en \in BOOLEAN :
    Apply(SetEnabled(Begin, en),
          [Op("toggleEnabled", 0) EXCEPT
             !.flag = en,
             !.afterOff = lastOp.op = "toggleEnabled" /\ ~lastOp.flag])

DoRemoveComponent ==
  \E e \in LiveEntities, name \in ComponentTypeMap :
    Apply(RemoveComponent(Begin, e, name),
          [Op("removeComponent", e) EXCEPT !.name = name])

DoEntityUpdate ==
  \E e \in Made :
    Apply(EntityUpdate(Begin, e, DeltaTime),
          [Op("update", e) EXCEPT !.flag = ents[e].alive = "true",
                                  !.components = ents[e].components])

DoDamage ==
  \E e \in LiveEntities, amount \in ({50, 100}) :
    Apply(EntityDamage(Begin, e, amount),
          [Op("damage", e) EXCEPT !.amount = amount])

DoPhysicsUpdate(deltas) ==
  \E events \in EventLists(St), dt \in deltas :
    Apply(PhysicsUpdate(Begin, events, dt),
          [Op("physicsUpdate", 0) EXCEPT !.events = events, !.amount = dt,
                                         !.flag = enabled])

DoSaveLoadScene ==
  LET saved == SaveSceneState(Begin)
  IN Apply(LoadSceneState(saved.S, saved.state),
           Op("saveLoadScene", 0))

\* saveEntityState then loadEntityState: the state goes through a JSON
\* file, so the new entity is built from a copy of the saved state
DoSaveLoadEntity ==
  \E e \in LiveEntities :
    LET S1 == EntitySaveState(Begin, e)
        S2 == CreateEntityFromState(S1, SavedState(S1, e))
    IN /\ S2.nextEnt <= MaxEntities + 1
       /\ Apply(S2, [Op("saveLoadEntity", e) EXCEPT !.other = nextEnt])

DoMakeHandler ==
  \E name \in (1..MaxHandlers), setA \in SUBSET Made, setB \in SUBSET Made :
    Apply(MakeHandler(Begin, name, SetToSeq(setA), SetToSeq(setB)),
          [Op("makeHandler", 0) EXCEPT !.amount = name])

DoCollisionUpdate ==
  Apply(CollisionUpdate(Begin), Op("collisionUpdate", 0))

DoTogglePause ==
  Apply(([Begin EXCEPT !.paused = ~@]), Op("togglePause", 0))

DoSceneUpdate ==
  \E events \in EventLists(St) :
    Apply(SceneUpdate(Begin, events, DeltaTime),
          [Op("sceneUpdate", 0) EXCEPT !.flag = paused, !.events = events])

DoSceneDispose ==
  \E outcome \in ({"none", "TypeError"}) :
    /\ worldFreed < MaxDisposeCalls
    /\ Apply(SceneDispose(Begin, outcome),
             [Op("sceneDispose", 0) EXCEPT !.flag = worldFreed > 0])

DoCreateAddEntities ==
  \E configs \in (UNION {[1..n -> FactoryConfigs] : n \in 1..MaxEntities}) :
    LET S == CreateAddEntities(Begin, configs)
    IN /\ S.nextEnt <= MaxEntities + 1
       /\ Apply(S, [Op("createAddEntities", 0) EXCEPT !.configs = configs])

DoSetComponents ==
  \E e \in LiveEntities, states \in ({<<CompState("BasicComp")>>,
      <<CompState(UnknownComponentType), CompState("BasicComp")>>,
      <<CompState("ImpulseComp"), CompState(UnknownComponentType),
      CompState("BasicComp")>>}), strict \in BOOLEAN :
    LET S == EntitySetComponents(Begin, e, states, strict)
    IN /\ S.nextComp <= MaxComps + 1
       /\ Apply(S, [Op("setComponents", e) EXCEPT
                      !.flag = strict,
                      !.config = [NoConfig EXCEPT !.components = states]])

\* a component constructed by the caller for the entity, not yet added
DoCreateComponent ==
  \E e \in LiveEntities, type \in ({"BasicComp"}) :
    LET S == CreateComponent(Begin, e, CompState(type))
    IN /\ S.nextComp <= MaxComps + 1
       /\ Apply(S, [Op("createComponent", e) EXCEPT !.other = nextComp])

\* callers add components that were not disposed
DoAddComponent ==
  \E e \in LiveEntities, c \in CompIds :
    /\ comps[c].made
    /\ comps[c].disposed = 0
    /\ Len(ents[e].components) < MaxAttached
    /\ Apply(AddComponent(Begin, e, c),
             [Op("addComponent", e) EXCEPT !.other = c])

DoLoadState ==
  \E e \in Made, config \in CompConfigs :
    LET S == EntityLoadState(Begin, e, config)
    IN /\ S.nextComp <= MaxComps + 1
       /\ Apply(S, [Op("loadState", e) EXCEPT !.config = config])

DoSetAlive ==
  \E e \in Made, alive \in BOOLEAN :
    Apply(SetAlive(Begin, e, alive),
          [Op("setAlive", e) EXCEPT !.flag = alive])

DoSetObject3D ==
  \E e \in LiveEntities, instances \in (1..MaxInstances) :
    Apply(SetObject3D(Begin, e, "BoxGeometry", instances),
          [Op("setObject3D", e) EXCEPT !.amount = instances])

DoSetPhysicsData ==
  \E e \in LiveEntities, data \in ({[massSet |-> FALSE, mass |-> 0]} \cup
      {[massSet |-> TRUE, mass |-> m] : m \in ({-1, 0, 2})}) :
    Apply(SetPhysicsData(Begin, e, data.massSet, data.mass),
          [Op("setPhysicsData", e) EXCEPT !.flag = data.massSet,
                                          !.amount = data.mass])

DoAddKillOnUpdate ==
  \E e \in LiveEntities :
    LET S == AddKillOnUpdate(Begin, e)
    IN /\ S.nextComp <= MaxComps + 1
       /\ Apply(S, [Op("addKillOnUpdate", e) EXCEPT !.other = nextComp])

DoAddCollisionComponent ==
  \E e \in LiveEntities, callback \in ({"killOther", "killSelf"}) :
    LET S == AddCollisionComponent(Begin, e, callback)
    IN /\ S.nextComp <= MaxComps + 1
       /\ Apply(S, [Op("addCollisionComponent", e) EXCEPT
                      !.other = nextComp, !.name = callback])

\* a call on the handle, or a message delivered to it
ApplyHandle(h, e, op) ==
  /\ handle' = h
  /\ err' = e
  /\ errTag' = ""
  /\ callLog' = <<>>
  /\ lastOp' = op
  /\ boundBefore' = {}
  /\ UNCHANGED <<ents, comps, nextEnt, nextComp, sceneEntities, enabled,
                 worldBodies, worldColliders, nextBody, nextCollider,
                 entityBodyHandles, paused, worldFreed, handlers,
                 disposedBound>>

DoRun ==
  \E cloneable \in BOOLEAN :
    /\ Len(handle.promises) < MaxRequests
    /\ ApplyHandle(Run(handle, cloneable), "none",
                   [Op("run", Len(handle.promises) + 1) EXCEPT
                      !.flag = cloneable])

\* the worker answers a request it has received; a Toiler also answers
\* after terminate(), and a worker may answer twice
DoDeliver ==
  \E id \in handle.posted, ok \in BOOLEAN :
    ApplyHandle(HandleMessage(handle, id, ok), "none",
                [Op("deliver", id) EXCEPT !.flag = ok])

DoTerminate ==
  ApplyHandle(Terminate(handle),
              IF handle.worker = "null" THEN "TypeError" ELSE "none",
              Op("terminate", 0))

\* the physics binding of entities without components
Next ==
  \/ DoCreateEntity(PhysicsConfigs)
  \/ DoAddEntity
  \/ DoRemoveEntity
  \/ DoKill
  \/ DoPhysicsAddEntity
  \/ DoPhysicsRemoveEntity
  \/ DoSaveState
  \/ DoToggleEnabled
  \/ DoPhysicsUpdate({DeltaTime * TicksPerSecond})

Spec == Init /\ [][Next]_vars

\* the lifecycle of entities and their components
NextLife ==
  \/ DoCreateEntity(Configs({"Box"}, {0}, {1}, {<<>>, <<CompState("HealthComp")>>, <<CompState("ImpulseComp"), CompState("BasicComp")>>}))
  \/ DoAddEntity
  \/ DoRemoveEntity
  \/ DoKill
  \/ DoRemoveComponent
  \/ DoEntityUpdate
  \/ DoDamage

SpecLife == Init /\ [][NextLife]_vars

\* scenes built from entity state records, saved and loaded
NextScene ==
  \/ DoCreateEntity(Configs({"Basic", "Box"}, {0, 1}, {1, 2}, {<<>>, <<CompState("ImpulseComp"), CompState("BasicComp")>>}))
  \/ DoAddEntity
  \/ DoSaveLoadScene
  \/ DoSaveLoadEntity

SpecScene == Init /\ [][NextScene]_vars

\* the entity and component factories, with unregistered type tags
NextFactory ==
  \/ DoCreateEntity(FactoryConfigs)
  \/ DoAddEntity
  \/ DoCreateAddEntities
  \/ DoSetComponents

SpecFactory == Init /\ [][NextFactory]_vars

\* the frame loop of a scene and its disposal; after dispose() the scene
\* is only disposed again
NextFrame ==
  \/ worldFreed = 0 /\ DoCreateEntity(Configs({"Box"}, {0, DefaultKillY - 1}, {1}, {<<CompState("BasicComp")>>}))
  \/ worldFreed = 0 /\ DoAddEntity
  \/ worldFreed = 0 /\ DoMakeHandler
  \/ worldFreed = 0 /\ DoTogglePause
  \/ worldFreed = 0 /\ DoSceneUpdate
  \/ DoSceneDispose

SpecFrame == Init /\ [][NextFrame]_vars

\* the bounding-volume sweep of the collision manager
NextSweep ==
  \/ DoCreateEntity(Configs({"Box"}, {0, 3}, {1}, {<<>>}))
  \/ DoKill
  \/ DoMakeHandler
  \/ DoCollisionUpdate

SpecSweep == Init /\ [][NextSweep]_vars

\* components constructed, added, removed and rebuilt by loadState
NextComp ==
  \/ DoCreateEntity(CompConfigs)
  \/ DoCreateComponent
  \/ DoAddComponent
  \/ DoRemoveComponent
  \/ DoLoadState

SpecComp == Init /\ [][NextComp]_vars

\* the alive flag of entities that are killed, revived and reloaded
NextAlive ==
  \/ DoCreateEntity(CompConfigs)
  \/ DoKill
  \/ DoSetAlive
  \/ DoLoadState

SpecAlive == Init /\ [][NextAlive]_vars

\* physics updates with frame times of every length
NextStep ==
  \/ DoCreateEntity(PhysicsConfigs)
  \/ DoAddEntity
  \/ DoToggleEnabled
  \/ DoPhysicsUpdate((0..MaxDeltaTicks))

SpecStep == Init /\ [][NextStep]_vars

\* bodies of plain and instanced nodes
NextBind ==
  \/ DoCreateEntity(BindConfigs)
  \/ DoSetObject3D
  \/ DoPhysicsAddEntity
  \/ DoPhysicsRemoveEntity

SpecBind == Init /\ [][NextBind]_vars

\* bodies of entities of every mass
NextMass ==
  \/ DoCreateEntity(BindConfigs)
  \/ DoSetPhysicsData
  \/ DoPhysicsAddEntity

SpecMass == Init /\ [][NextMass]_vars

\* frames of a scene with entities that are killed by their own update
NextKillUpdate ==
  \/ DoCreateEntity(CompConfigs)
  \/ DoAddEntity
  \/ DoAddKillOnUpdate
  \/ DoSceneUpdate

SpecKillUpdate == Init /\ [][NextKillUpdate]_vars

\* collision events dispatched to entities whose components kill
NextCollide ==
  \/ DoCreateEntity(BindConfigs)
  \/ DoAddEntity
  \/ DoAddCollisionComponent
  \/ DoPhysicsUpdate({DeltaTime * TicksPerSecond})

SpecCollide == Init /\ [][NextCollide]_vars

\* a worker handle: requests, answers and terminate in any order
NextWorker ==
  \/ DoRun
  \/ DoDeliver
  \/ DoTerminate

SpecWorker == Init /\ [][NextWorker]_vars

\* ------------------------------------------------------------- getters

\* EntityBase.getAlive: this.alive || false
GetAlive(e) == ents[e].alive = "true"

BodiesOf(e) == {ents[e].physics[i].body : i \in 1..Len(ents[e].physics)}
CollidersOf(e) == {ents[e].physics[i].collider : i \in 1..Len(ents[e].physics)}

\* the native bodies and colliders that were created for the entity
NativeOf(e) ==
  {b \in worldBodies : b.owner = e} \cup {c \in worldColliders : c.owner = e}

\* what a scene is observed to hold: per entity, in order, its component
\* types and its transform
SceneSummary(scene, heap, cheap) ==
  [i \in 1..Len(scene) |->
     [components |-> [j \in 1..Len(heap[scene[i]].components) |->
                        cheap[heap[scene[i]].components[j]].compType],
      pos |-> heap[scene[i]].pos,
      scale |-> heap[scene[i]].scale]]

CountIn(log, entry) == Cardinality({i \in 1..Len(log) : log[i] = entry})

\* --------------------------------------------------------------- claims

\* C1: loadSceneState(saveSceneState()) yields a scene with the same
\* number of entities in the same order, the same ordered component types
\* per entity and the same transform per entity as before the save.
C1_RoundTripPreservesScene ==
  [][lastOp'.op = "saveLoadScene" =>
       SceneSummary(sceneEntities', ents', comps')
         = SceneSummary(sceneEntities, ents, comps)]_vars

\* C2: the dispose hook of every component that was attached to an entity
\* is invoked exactly once: never while it is still attached, once when
\* it has been removed or its entity killed, and never a second time.
C2_DisposeExactlyOnce ==
  \A c \in CompIds :
    comps[c].made =>
      LET attached == \E e \in EntityIds : c \in SeqToSet(ents[e].components)
      IN comps[c].disposed = IF attached THEN 0 ELSE 1

\* C3: once an entity has been killed or removed from the scene, no native
\* body or collider created for it remains in the physics world.
C3_NoBodyOutlivesEntity ==
  \A e \in EntityIds :
    (/\ lastOp.e = e
     /\ \/ lastOp.op = "kill"
        \/ lastOp.op = "removeEntity" /\ lastOp.flag)
    => NativeOf(e) = {}

\* C4: after toggleEnabled(false) then toggleEnabled(true), every entity
\* bound before the toggle has exactly one body/collider pair, every body
\* in the world is in the binding of exactly one entity of the scene, and
\* the reverse index holds only handles of bodies in the world.
C4_ToggleRebindsOnce ==
  (lastOp.op = "toggleEnabled" /\ lastOp.flag /\ lastOp.afterOff) =>
    /\ \A e \in boundBefore :
         /\ Len(ents[e].physics) = 1
         /\ \A h \in BodiesOf(e) : \E b \in worldBodies : b.handle = h
         /\ \A h \in CollidersOf(e) : \E c \in worldColliders : c.handle = h
    /\ \A b \in worldBodies :
         Cardinality({e \in SeqToSet(sceneEntities) : b.handle \in BodiesOf(e)}) = 1
    /\ \A e \in DOMAIN entityBodyHandles :
         \A h \in SeqToSet(entityBodyHandles[e]) :
           \E b \in worldBodies : b.handle = h

C6_LethalDamageKills ==
  (/\ lastOp.op = "damage"
   /\ \E i \in 1..Len(callLog) :
        /\ callLog[i].hook = "damage"
        /\ callLog[i].e = lastOp.e
        /\ comps[callLog[i].c].health = 0)
  => /\ ~GetAlive(lastOp.e)
     /\ ([isNull |-> ents[lastOp.e].nulled, list |->
            ents[lastOp.e].components]) = ([isNull |-> FALSE, list |-> <<>>])

\* C7: kill() on an already-killed entity is a no-op: it does not throw,
\* invokes no onDestroy and no dispose, and changes neither the entity,
\* the components, the scene's entity set nor the physics world.
C7_DoubleKillIsNoOp ==
  [][(lastOp'.op = "kill" /\ ents[lastOp'.e].nulled) =>
       /\ err' = "none"
       /\ callLog' = <<>>
       /\ ents' = ents
       /\ comps' = comps
       /\ sceneEntities' = sceneEntities
       /\ worldBodies' = worldBodies
       /\ worldColliders' = worldColliders
       /\ entityBodyHandles' = entityBodyHandles]_vars

C7_Witness ==
  /\ lastOp.op = "kill"
  /\ lastOp.flag
  /\ ents[lastOp.e].destroyed = 1
  /\ \E c \in CompIds : comps[c].made /\ comps[c].disposed > 0

\* C8: whenever an entity's render node is disposed, every native body and
\* collider created for the entity has already left the physics world.
C8_UnbindBeforeDispose == disposedBound = {}

\* C9: update() on an alive entity invokes onUpdate once and then the
\* update of every component of its list once each, in insertion order,
\* also when a component removes itself during its own update; on an
\* entity that is not alive it invokes nothing.

C9_UpdateFanOut ==
  lastOp.op = "update" =>
    IF lastOp.flag
    THEN (SelectSeq(callLog, LAMBDA call : call.hook \in {"onUpdate", "update"})) =
           <<Call("onUpdate", lastOp.e, 0, 0, 0)>> \o
           [j \in 1..Len(lastOp.components) |->
              Call("update", lastOp.e, lastOp.components[j], 0, 0)]
    ELSE callLog = <<>>

\* C10: physics.addEntity on an entity whose render node has no supported
\* collider shape creates no body or collider, leaves the entity unbound
\* and absent from the reverse index, and does not throw.
C10_UnsupportedShapeSkipsBind ==
  (/\ lastOp.op = "physicsAddEntity"
   /\ ents[lastOp.e].geom \notin SupportedGeometry)
  => /\ err = "none"
     /\ NativeOf(lastOp.e) = {}
     /\ ents[lastOp.e].physics = <<>>
     /\ lastOp.e \notin DOMAIN entityBodyHandles

\* C11: when createAddEntities is given a list of records of which some
\* have an unknown entity type, every record with a registered type is
\* still constructed and added to the scene, in order.

C11_UnknownTypeAbortsOneRecord ==
  [][lastOp'.op = "createAddEntities" =>
       LET known == (SelectSeq((lastOp'.configs), LAMBDA c : c.entityType \in
           EntityTypeMap))
           n == Len(sceneEntities)
       IN /\ Len(sceneEntities') = n + Len(known)
          /\ \A i \in 1..Len(known) :
               /\ sceneEntities'[n + i] \notin SeqToSet(sceneEntities)
               /\ ents'[sceneEntities'[n + i]].entityType = known[i].entityType]_vars

C13_LenientComponentFactory ==
  lastOp.op = "setComponents" =>
    /\ err = "none"
    /\ [i \in 1..Len(ents[lastOp.e].components) |->
          comps[ents[lastOp.e].components[i]].compType]
         = (LET kept == SelectSeq(lastOp.config.components, LAMBDA st :
             st.compType \in (IF lastOp.flag THEN StrictComponentTypeMap ELSE
             ComponentTypeMap)) IN [i \in 1..Len(kept) |-> kept[i].compType])

\* C14: constructing a box entity multiplies its width by the scale of the
\* state and resets the scale to 1, and an entity reconstructed from the
\* saved state of a box (by createEntityFromState or by loadSceneState)
\* has the same width and scale 1: the scale is not applied again.
C14_BoxScaleBakedOnce ==
  [][/\ (lastOp'.op = "createEntity" /\ err' = "none"
           /\ lastOp'.config.entityType = "Box") =>
          /\ ents'[lastOp'.e].width
               = lastOp'.config.width * lastOp'.config.scale
          /\ ents'[lastOp'.e].scale = 1
     /\ (lastOp'.op = "saveLoadEntity" /\ err' = "none"
           /\ ents[lastOp'.e].entityType = "Box") =>
          /\ ents'[lastOp'.other].width = ents[lastOp'.e].width
          /\ ents'[lastOp'.other].scale = 1
     /\ (lastOp'.op = "saveLoadScene" /\ err' = "none") =>
          /\ Len(sceneEntities') = Len(sceneEntities)
          /\ \A i \in 1..Len(sceneEntities) :
               ents[sceneEntities[i]].entityType = "Box" =>
                 /\ ents'[sceneEntities'[i]].width
                      = ents[sceneEntities[i]].width
                 /\ ents'[sceneEntities'[i]].scale = 1]_vars

C14_Witness ==
  /\ lastOp.op = "saveLoadEntity"
  /\ err = "none"
  /\ ents[lastOp.other].entityType = "Box"
  /\ ents[lastOp.other].width = 4
  /\ ents[lastOp.other].scale = 1
  /\ ents[lastOp.e].width = 4

\* C15: whenever physics is globally disabled, no entity of the scene holds
\* a body/collider binding.
C15_NoBindingWhileDisabled ==
  ~enabled => \A e \in SeqToSet(sceneEntities) : ents[e].physics = <<>>

\* C16: physics.removeEntity on a bound entity removes the bodies and
\* colliders of its binding from the world, deletes its reverse-index entry
\* and clears the binding stored on the entity; on an entity without a
\* binding it changes nothing and does not throw.
C16_RemoveEntityUnbinds ==
  [][lastOp'.op = "physicsRemoveEntity" =>
       LET e == lastOp'.e IN
       /\ err' = "none"
       /\ IF ents[e].physics # <<>>
          THEN /\ \A b \in worldBodies' : b.handle \notin BodiesOf(e)
               /\ \A c \in worldColliders' : c.handle \notin CollidersOf(e)
               /\ e \notin DOMAIN entityBodyHandles'
               /\ ents'[e].physics = <<>>
          ELSE /\ ents' = ents
               /\ worldBodies' = worldBodies
               /\ worldColliders' = worldColliders
               /\ entityBodyHandles' = entityBodyHandles]_vars

\* C17: a second dispose() of the scene is a no-op: the native physics
\* world is freed exactly once and no error is raised.
C17_DoubleDisposeIsNoOp ==
  /\ worldFreed <= 1
  /\ lastOp.op = "sceneDispose" => err = "none"

\* C18: in a scene update that is not paused, the physics step and the
\* drain of collision events come before the bounding-volume sweep, the
\* sweep comes before every entity's sync and update, every entity of the
\* scene is synced once, and its sync comes before its update; in a paused
\* scene update none of these run.
SweepHooks == {"sweep", "onCollision"}
EntityHooks == {"syncEntity", "onUpdate", "update"}

Indices(log, hooks) == {i \in 1..Len(log) : log[i].hook \in hooks}

C18_FrameOrder ==
  [][lastOp'.op = "sceneUpdate" =>
       IF paused THEN callLog' = <<>>
       ELSE /\ Indices(callLog', {"sweep"}) # {}
            /\ enabled => Indices(callLog', {"step"}) # {}
            /\ \A i \in Indices(callLog', ({"step", "collideStart", "collideEnd"})) :
                 \A j \in Indices(callLog', SweepHooks \cup EntityHooks) : i < j
            /\ \A i \in Indices(callLog', SweepHooks) :
                 \A j \in Indices(callLog', EntityHooks) : i < j
            /\ \A e \in SeqToSet(sceneEntities) :
                 /\ CountIn(callLog', Call("syncEntity", e, 0, 0, 0)) = 1
                 /\ CountIn(callLog', Call("onUpdate", e, 0, 0, 0)) = 1
                 /\ \A i, j \in 1..Len(callLog') :
                      (/\ callLog'[i] = Call("syncEntity", e, 0, 0, 0)
                       /\ callLog'[j].hook \in {"onUpdate", "update"}
                       /\ callLog'[j].e = e) => i < j]_vars

C18_Witness ==
  /\ lastOp.op = "sceneUpdate"
  /\ ~lastOp.flag
  /\ Indices(callLog, {"collideStart"}) # {}
  /\ Indices(callLog, {"onCollision"}) # {}
  /\ Cardinality(Indices(callLog, {"onUpdate"})) = 2

\* C19: in a CollisionManager.update, for every handler and every pair
\* (a, b) with a in entitiesA, b in entitiesB, a distinct from b, both
\* alive and their boxes overlapping, onCollision(a, b) is invoked exactly
\* once; it is never invoked for a pair of which an entity is dead.
C19_SweepOncePerPair ==
  [][lastOp'.op = "collisionUpdate" =>
       /\ \A h \in 1..Len(handlers) :
            \A a \in SeqToSet(handlers[h].entitiesA) :
              \A b \in SeqToSet(handlers[h].entitiesB) :
                (a # b /\ GetAlive(a) /\ GetAlive(b) /\ CheckCollision(St, a, b))
                => CountIn(callLog', Call("onCollision", a, 0, b, h)) = 1
       /\ \A i \in Indices(callLog', {"onCollision"}) :
            GetAlive(callLog'[i].e) /\ GetAlive(callLog'[i].other)]_vars

C19_Witness ==
  /\ lastOp.op = "collisionUpdate"
  /\ \E a, b \in EntityIds :
       /\ a # b
       /\ CountIn(callLog, Call("onCollision", a, 0, b, 1)) = 1
       /\ CountIn(callLog, Call("onCollision", b, 0, a, 1)) = 1

\* C20: after CollisionManager.update returns, no handler's entitiesA or
\* entitiesB holds an entity that was dead when the sweep began.
C20_DeadPrunedFromSets ==
  [][lastOp'.op = "collisionUpdate" =>
       \A h \in 1..Len(handlers') :
         \A e \in SeqToSet(handlers'[h].entitiesA)
                   \cup SeqToSet(handlers'[h].entitiesB) :
           GetAlive(e)]_vars

\* C21: a component instance is in the component list of at most one
\* entity, and the entity getEntity() returns is the one whose list
\* holds it, after any addComponent, removeComponent and loadState calls.
C21_ComponentHasOneOwner ==
  \A c \in CompIds :
    /\ Cardinality({e \in EntityIds : c \in SeqToSet(ents[e].components)}) <= 1
    /\ \A e \in EntityIds :
         c \in SeqToSet(ents[e].components) => comps[c].entity = e

\* C22: an entity whose alive flag is true has a render node: kill()
\* clears the flag before it releases the node, and no call sets the flag
\* on an entity whose node is gone.
C22_AliveHasRenderNode ==
  \A e \in EntityIds : ents[e].alive = "true" => ents[e].object3D

\* C23: a physics update made while physics is enabled steps the world at
\* least once, ceil(deltaTime / (1/120)) times, with the timestep
\* deltaTime / steps, so that a substep is at most 1/120 s and the
\* substeps add up to deltaTime; while physics is disabled the world is
\* not stepped.

C23_SubstepsCoverDeltaTime ==
  [][lastOp'.op = "physicsUpdate" =>
       IF enabled
       THEN /\ Len((SelectSeq((callLog'), LAMBDA call : call.hook = "step"))) = 1
            /\ Len((SelectSeq((callLog'), LAMBDA call : call.hook = "timestep"))) = 1
            /\ LET steps == (SelectSeq((callLog'), LAMBDA call : call.hook = "step"))[1].k
                   stepTime == (SelectSeq((callLog'), LAMBDA call : call.hook
                       = "timestep"))[1]
               IN /\ steps >= 1
                  /\ steps = Ceil(lastOp'.amount * StepRate, TicksPerSecond)
                  /\ stepTime.other = lastOp'.amount
                  /\ stepTime.k = steps
                  /\ stepTime.other * StepRate <= stepTime.k * TicksPerSecond
       ELSE (SelectSeq((callLog'), LAMBDA call : call.hook = "step")) = <<>>]_vars

\* C24: binding an entity whose render node is an instanced mesh with N
\* instances creates exactly N bodies and N colliders, stored on the
\* entity in the order of the instances, and the reverse index maps each
\* of the N body handles to the entity.
C24_InstancedBindCreatesNBodies ==
  [][(/\ lastOp'.op = "physicsAddEntity"
      /\ ents[lastOp'.e].instances > 0
      /\ ents[lastOp'.e].geom \in SupportedGeometry) =>
       LET e == lastOp'.e
           n == ents[e].instances
           newBodies == worldBodies' \ worldBodies
           newColliders == worldColliders' \ worldColliders
           binding == ents'[e].physics
       IN /\ err' = "none"
          /\ Cardinality(newBodies) = n
          /\ Cardinality(newColliders) = n
          /\ Len(binding) = n
          /\ \A i \in 1..n :
               /\ \E b \in newBodies :
                    b.handle = binding[i].body /\ b.instance = i /\ b.owner = e
               /\ \E c \in newColliders :
                    c.handle = binding[i].collider /\ c.parent = binding[i].body
               /\ GetEntityByHandle([entityBodyHandles |-> entityBodyHandles'],
                                    binding[i].body) = e]_vars

C24_Witness ==
  /\ lastOp.op = "physicsAddEntity"
  /\ ents[lastOp.e].instances = MaxInstances
  /\ Len(ents[lastOp.e].physics) = MaxInstances
  /\ Cardinality({b \in worldBodies : b.owner = lastOp.e}) = MaxInstances
  /\ Len(entityBodyHandles[lastOp.e]) = MaxInstances

\* C25: the type of a body created at bind time is decided by the mass of
\* the entity alone: dynamic for a mass above 0, fixed for mass 0,
\* kinematic for a mass below 0, and dynamic for an unset mass (which
\* defaults to 1).
C25_BodyTypeFromMass ==
  [][(/\ lastOp'.op = "physicsAddEntity"
      /\ ents[lastOp'.e].geom \in SupportedGeometry) =>
       LET e == lastOp'.e
           newBodies == worldBodies' \ worldBodies
           expected == IF ~ents[e].massSet THEN "Dynamic"
                       ELSE IF ents[e].mass > 0 THEN "Dynamic"
                       ELSE IF ents[e].mass = 0 THEN "Fixed"
                       ELSE "KinematicPositionBased"
       IN /\ newBodies # {}
          /\ \A b \in newBodies : b.bodyType = expected]_vars

C25_Witness ==
  /\ lastOp.op = "physicsAddEntity"
  /\ ents[lastOp.e].massSet
  /\ ents[lastOp.e].mass < 0
  /\ \E b \in worldBodies :
       b.owner = lastOp.e /\ b.bodyType = "KinematicPositionBased"
  /\ \E f \in EntityIds :
       /\ ~ents[f].massSet
       /\ \E b \in worldBodies : b.owner = f /\ b.bodyType = "Dynamic"

\* C26: saveState() changes nothing on the entity but the transform stored
\* in its user data: the component list, the alive flag and the binding
\* getPhysicsBodyData() returns are the same after the call as before.
C26_SaveStateKeepsBinding ==
  [][lastOp'.op = "saveState" =>
       LET e == lastOp'.e
       IN /\ GetPhysicsBodyData([ents |-> ents'], e)
               = GetPhysicsBodyData([ents |-> ents], e)
          /\ ents'[e].components = ents[e].components
          /\ ents'[e].alive = ents[e].alive
          /\ comps' = comps]_vars

\* C27: a scene update in which an entity is killed by its own update
\* finishes without throwing, and every entity of the scene is updated.
C27_KillDuringUpdateIsSafe ==
  [][(lastOp'.op = "sceneUpdate" /\ ~paused) =>
       /\ err' = "none"
       /\ \A e \in SeqToSet(sceneEntities) :
            GetAlive(e) => CountIn(callLog', Call("onUpdate", e, 0, 0, 0)) = 1]_vars

\* C28: the dispatch of a collision event never throws, also when the
\* collide handling of a participant kills the other participant or
\* itself, and no component that was disposed receives a collide call.
C28_CollisionDispatchIsSafe ==
  [][lastOp'.op = "physicsUpdate" =>
       /\ err' = "none"
       /\ \A i \in Indices(callLog', {"componentCollide"}) :
            callLog'[i].e # 0]_vars

\* C29: createEntityFromState constructs one component per component
\* record of the state: every component constructed while the entity is
\* built is in the component list of the entity it returns.
C29_OneComponentPerRecord ==
  [][(lastOp'.op = "saveLoadEntity" /\ err' = "none") =>
       LET constructed == {c \in CompIds : comps'[c].made /\ ~comps[c].made}
       IN /\ constructed = SeqToSet(ents'[lastOp'.other].components)
          /\ Cardinality(constructed) = Len(ents[lastOp'.e].components)]_vars

====
